---- MODULE Spec2Model ----
(***************************************************************************)
(* Low-speed-shaft sizing of DriveSE: LowSpeedShaft_drive4pt.execute and    *)
(* LowSpeedShaft_drive3pt.execute (src/src/drivese/drivese_components.py).  *)
(*                                                                         *)
(* Fixed-point units.  The source computes in IEEE doubles; the model       *)
(* keeps every quantity as an integer multiple of the smallest step the     *)
(* code takes in it:                                                        *)
(*   span lengths      0.0025 m   (dL = 0.0025, dL_ms = 0.05, L_ms_0 = 0.5) *)
(*   diameters         0.01 m     (iterationstep = 0.01)                    *)
(*   slopes            1e-5 rad   (tol = 1e-4)                              *)
(*   damage            1/100      (the exit tests compare Damage with 1)    *)
(* A float NaN is the value NaN below (a number no computation of the      *)
(* model produces); every comparison with it is false, as in IEEE           *)
(* arithmetic.  A name the code has not assigned yet is Undef; reading it   *)
(* raises NameError.                                                        *)
(***************************************************************************)
EXTENDS Integers, Sequences, FiniteSets, TLC

VARIABLES
    inp,            \* the inputs of this execute() call (never written)
    pc,             \* position in execute()
    L_ms, L_ms_new, L_mb, L_mb_new, L_ms_gb, L_ms_gb_new, L_ms__gb_new,
    check_limit, check_limit_ms, counter, counter_ms,
    D_max, D_min, D_med, D_in,
    Damage, D_max_a, D_med_a, D_min_a,
    out,            \* the outputs execute() has written
    hist            \* history of the run (no code reads it)

spanVars == <<L_ms, L_ms_new, L_mb, L_mb_new, L_ms_gb, L_ms_gb_new,
              L_ms__gb_new, check_limit, check_limit_ms, counter, counter_ms>>
diamVars == <<D_max, D_min, D_med, D_in>>
fatVars  == <<Damage, D_max_a, D_med_a, D_min_a>>
vars == <<inp, pc, spanVars, diamVars, fatVars, out, hist>>

-----------------------------------------------------------------------------
(* Values outside the numbers *)

NaN   == 0 - 7777777
Undef == 0 - 8888888

IsNum(x) == x # NaN /\ x # Undef

\* IEEE comparisons: false as soon as one side is NaN.
GT(a, b) == IsNum(a) /\ IsNum(b) /\ a > b
LT(a, b) == IsNum(a) /\ IsNum(b) /\ a < b
GE(a, b) == IsNum(a) /\ IsNum(b) /\ a >= b
LE(a, b) == IsNum(a) /\ IsNum(b) /\ a <= b

Abs(x) == IF IsNum(x) THEN (IF x < 0 THEN -x ELSE x) ELSE x

Max2(a, b) == IF a >= b THEN a ELSE b

-----------------------------------------------------------------------------
(* Program constants, in model units *)

L_ms_0      == 200      \* 0.5 m
dL_first    == 20       \* dL = 0.05 m in the first loop and in the 3-point loop
dL_ms       == 20       \* 0.05 m
dL_second   == 1        \* dL = 0.0025 m, set before the second loop
tol         == 10       \* 1e-4 rad
check_limit_0 == 100000 \* check_limit = 1.0
TRB1_limit  == 87       \* 3/60/180*pi = 8.727e-4 rad
CB_limit    == 116      \* 4/60/180*pi = 1.164e-3 rad (assigned, never read)
MB_limit    == 2600     \* 0.026 rad (assigned, never read)
n_safety_brg == 1
N_count_2   == 2
D_max_0     == 100      \* D_max = 1
D_min_0     == 20       \* D_min = 0.2
iterationstep == 1      \* 0.01 m
diameter_limit_5 == 500 \* diameter_limit = 5.0
diameter_limit_3pt == 150 \* diameter_limit = 1.5 (3-point, synthesized mode)
SR_DEN      == 4        \* shaft_ratio is inp.sR / SR_DEN

-----------------------------------------------------------------------------
(* Bounds of the model *)

MaxSpanSteps == 2       \* length_max admits up to this many 0.05 m steps past L_ms_0

-----------------------------------------------------------------------------
(* Hollow-shaft correction (D**4 + D_in**4)**0.25, rounded down.            *)
(* Fourth powers of diameters up to 1000 are kept as <<hi, lo>> with value  *)
(* hi*10^6 + lo, so that no intermediate product leaves 32 bits.            *)

Pow4(x) ==
    LET s   == x * x
        h   == s \div 1000
        l   == s % 1000
        mid == 2 * h * l * 1000 + l * l
    IN  <<h * h + (mid \div 1000000), mid % 1000000>>

AddWide(a, b) ==
    LET lo == a[2] + b[2]
    IN  <<a[1] + b[1] + (lo \div 1000000), lo % 1000000>>

LeWide(a, b) == a[1] < b[1] \/ (a[1] = b[1] /\ a[2] <= b[2])

\* A sizing that leaves the solid-shaft diameter uncorrected
Hollow_solid(D, Din) == D

Hollow(D, Din) ==
    LET sum == AddWide(Pow4(D), Pow4(Din))
    IN  CHOOSE r \in Max2(D, Din)..(D + Din) :
            LeWide(Pow4(r), sum) /\ ~LeWide(Pow4(r + 1), sum)

\* D_in = sR*D_max
BoreOf(sR, D) == (sR * D) \div SR_DEN

-----------------------------------------------------------------------------
(* The beam equations.                                                     *)
(* One pass of a span loop evaluates reaction forces, the bending-moment    *)
(* envelope (MM_max >= MM_min, MM_med since MM_max is the maximum over all  *)
(* stations), the distortion-energy diameters and the bearing-end slope     *)
(* theta_y[-1].  They are a function of the rotor loads and of the span;    *)
(* the model leaves the loads open and draws the result of a pass from      *)
(* BeamResults.  Two passes at the same span see the same result.           *)

ThetaVals == {NaN, 50, 90, 150}

\* Seat diameters the sizing formulas return (lines 244-248, 371-378, 1100-1104),
\* before the bore correction: near the search bounds of each configuration, the
\* gearbox-end diameter D_min below the bore of a hollow shaft.
DmaxVals(config) == IF config = "4pt" THEN {470, 490} ELSE {130, 145}
DminVals(config) == IF config = "4pt" THEN {200} ELSE {60}

BeamResults(config) ==
    { r \in [theta : ThetaVals, dmax : DmaxVals(config), dmin : DminVals(config),
             dmed : DmaxVals(config)] : r.dmax >= r.dmed }

\* The allowable slope at a seat carrying a bearing of the given type:
\* TRB1_limit/n_safety_brg at lines 278, 425, 432 and 1149, whatever the type
SlopeLimit(type) == TRB1_limit \div n_safety_brg

\* check_limit = abs(abs(theta_y[-1]) - TRB1_limit/n_safety_brg)
CheckLimitOf(theta) ==
    IF IsNum(theta) THEN Abs(Abs(theta) - SlopeLimit(inp.mb1Type)) ELSE NaN

\* A span loop that stops as soon as the slope is within five tolerances
SpanLoopGuard_loose(chk, L_new, lmax) == GT(Abs(chk), 5 * tol) /\ L_new < lmax

\* while abs(check_limit) > tol and L_new < length_max
SpanLoopGuard(chk, L_new, lmax) == GT(Abs(chk), tol) /\ L_new < lmax

-----------------------------------------------------------------------------
(* Fatigue arithmetic shared by both spectrum modes.                        *)
(* Stresses are integers in model stress units, loads in model load units.  *)
(* The shaft angle gamma is taken as 0 (cos = 1, sin = 0).                  *)

Inf == 0 - 6666666          \* float +inf (only as a number of cycles to failure)

Q_FIX        == 1000        \* ratios are kept in 1/1000
DamageOne    == 100         \* Damage = 1.0
BendScale    == 200000      \* load*D/(2I) -> stress units
NormScale    == 2000        \* load/Area   -> stress units
Sut          == 700         \* Sut = 700.0e6 Pa
SN_a         == 400         \* S-N intercept, on the model's cycle scale
PROB_DEN     == 4           \* Weibull survival probabilities are k/4
RatioCap     == 20000       \* stress and load ratios saturate at 20
DamageCap    == 100000      \* damage terms saturate at 1000

Min2(a, b) == IF a <= b THEN a ELSE b

RECURSIVE SqrtBS(_, _, _)
SqrtBS(n, lo, hi) ==
    IF lo >= hi THEN lo
    ELSE LET mid == (lo + hi + 1) \div 2
         IN  IF mid * mid <= n THEN SqrtBS(n, mid, hi) ELSE SqrtBS(n, lo, mid - 1)

ISqrt(n) == SqrtBS(n, 0, IF n < 46340 THEN n ELSE 46340)

\* Area=pi/4.*(D**2-D_in**2), with pi/4 folded into NormScale
Area(D, Din) == D * D - Din * Din

\* 2.*I/D = (pi/32)*(D**4-D_in**4)/D, with the constant folded into BendScale;
\* D**4-D_in**4 is computed as (D**2-D_in**2)*(D**2+D_in**2)
SectionModulus(D, Din) ==
    (((D * D - Din * Din) \div 10) * ((D * D + Din * Din) \div D)) \div 10

\* float addition
FAdd(x, y) == IF x = NaN \/ y = NaN THEN NaN ELSE x + y

\* M*D/(2.*I), M*D/(2.*J) with J = I*2, F/Area.  The sections of the model are
\* never zero (D > D_in >= 0 for shaft_ratio < 1).
BendStress(M, D, Din)   == (M * BendScale) \div SectionModulus(D, Din)
ShearStress(M, D, Din)  == (M * BendScale) \div (2 * SectionModulus(D, Din))
NormalStress(F, D, Din) == (F * NormScale) \div Area(D, Din)

\* ((bend+normal)**2+3.*shear**2)**(0.5)
VonMises(bend, normal, shear) ==
    ISqrt((bend + normal) * (bend + normal) + 3 * shear * shear)

\* def Goodman(S_alt,S_mean,Sut): return S_alt/(1-(S_mean/Sut)), called with
\* S_mean = -mean_stress
Goodman(S_alt, mean_stress, sut) == (S_alt * sut) \div (sut + mean_stress)

\* def Ninterp(S,a,b): return (S/a)**(1/b), with 1/b = -m.  The cycles to failure
\* (a/S)**m are kept as the ratio S/a in 1/Q_FIX; S = 0 gives (0.)**(-m) = inf.
Ninterp(S, a) == IF S = 0 THEN Inf ELSE Min2((S * Q_FIX) \div a, RatioCap)

RECURSIVE MulPow(_, _, _)
MulPow(x, q, m) ==
    IF m = 0 THEN x ELSE MulPow(Min2((x * q) \div Q_FIX, DamageCap), q, m - 1)

\* n/Ninterp(...): n cycles over the cycles to failure, in units of 1/DamageOne
CyclesOver(n, life, m) == IF life = Inf THEN 0 ELSE MulPow(n * DamageOne, life, m)

RECURSIVE Trapz(_, _, _)
Trapz(y, x, i) ==
    IF i >= Len(x) THEN 0
    ELSE ((x[i + 1] - x[i]) * (y[i] + y[i + 1])) \div 2 + Trapz(y, x, i + 1)

\* scipy.integrate.simps(y, x=x, even='avg') is library code.  Its composite
\* Simpson rule over samples x is modelled by the trapezoid rule over the same
\* samples; it divides by the spacings h0, h1 of x (h0/h1, hsum*hsum/hprod), so a
\* repeated abscissa gives 0/0 or inf - inf (NaN), and a NaN sample gives NaN.
Simps(y, x) ==
    IF \E i \in 1..(Len(x) - 1) : x[i + 1] = x[i] THEN NaN
    ELSE Trapz(y, x, 1)

-----------------------------------------------------------------------------
(* Synthesized spectrum (check_fatigue == 1), lines 480-572 and 1192-1270.  *)
(* Cycle counts are whole cycles; N_f is kept as N_f4 = PROB_DEN * N_f.     *)

NumPts == 3                 \* num_pts (100 in the code) log-spaced bins
F_clip  == 500              \* 2*k_b = 5.0, in 1/100
F_floor == 18               \* 0.18, in 1/100

\* N_f=self.availability*n_c*(T_life*365*24*60*60)*exp(-(V_0/weibullA)**weibullk)
\*       -exp(-(V_f/weibullA)**weibullk)
\* cyc = availability*n_c*seconds per unit of T_life; pIn/PROB_DEN and
\* pOut/PROB_DEN are the two Weibull survival probabilities.
N_f4(syn) == syn.cyc * syn.T_life * syn.pIn - syn.pOut

RECURSIVE Pow2(_)
Pow2(k) == IF k <= 0 THEN 1 ELSE 2 * Pow2(k - 1)

CeilDiv(a, b) == (a + b - 1) \div b

\* np.logspace(log10(N_f)-(2*k_b-0.18)/Beta, log10(N_f), num=num_pts), then
\* N[i]=roundup(N[i],1): bin i of the model is N_f / 2^(NumPts-i), rounded up.
N_grid(nf4) == [i \in 1..NumPts |-> CeilDiv(nf4, PROB_DEN * Pow2(NumPts - i))]

\* 100*log2(a/b) for a >= b > 0, linear between powers of two
RECURSIVE Log2x100(_, _)
Log2x100(a, b) ==
    IF a >= 2 * b THEN 100 + Log2x100(a, 2 * b) ELSE (100 * (a - b)) \div b

\* def standardrange(N, N_f, Beta, k_b): F_delta=(Beta*(log10(N_f)-log10(N)))+0.18,
\* set to 0. when F_delta>=2*k_b.  Beta*(log10 of the lowest bin ratio) = 2*k_b-0.18.
standardrange(N, nf4) ==
    LET lg == IF nf4 >= PROB_DEN * N THEN Log2x100(nf4, PROB_DEN * N)
              ELSE 0 - Log2x100(PROB_DEN * N, nf4)
        F_delta == ((F_clip - F_floor) * lg) \div (100 * (NumPts - 1)) + F_floor
    IN  IF F_delta >= F_clip THEN 0 ELSE F_delta

F_stoch(nf4) == [i \in 1..NumPts |-> standardrange(N_grid(nf4)[i], nf4)]

\* Fx_stoch = (F_stoch*0.5*p_o*R)*Fx_factor and the moment channels likewise;
\* amp is the product of the factors that multiply F_stoch.
Scaled(F, amp) == [i \in 1..Len(F) |-> (F[i] * amp) \div 100]

\* The damage of one trial of a synthesized search at seat diameter D with
\* bore Din (lines 583-616, 633-672, 1281-1316): the stochastic integral, the
\* once-per-revolution term and their sum.  detMoment is the deterministic
\* bending moment at the seat; guarded tells whether the term is added only
\* "if S_mod_determ2 > 0" (line 671).
SynthDamage(D, Din, syn, bendAmp, detMoment, guarded) ==
    LET nf4  == N_f4(syn)
        N    == N_grid(nf4)
        F    == F_stoch(nf4)
        Fx_stoch == Scaled(F, syn.FxAmp)
        Mx_stoch == Scaled(F, syn.MxAmp)
        Mb_stoch == Scaled(F, bendAmp)
        mean_stress ==
            VonMises(0, NormalStress(syn.Fx_mean, D, Din), ShearStress(syn.Mx_mean, D, Din))
        stoch_stress(i) ==
            VonMises(BendStress(Mb_stoch[i], D, Din), NormalStress(Fx_stoch[i], D, Din),
                     ShearStress(Mx_stoch[i], D, Din))
        DEL_y == [i \in 1..NumPts |->
                    CyclesOver(N[i], Ninterp(Goodman(stoch_stress(i), mean_stress, Sut), SN_a),
                               syn.m)]
        stoch == Simps(DEL_y, N)
        S_mod_determ == Goodman(BendStress(detMoment, D, Din), mean_stress, Sut)
        \* N_rotor = N_f/3.
        det   == IF guarded /\ ~(S_mod_determ > 0) THEN 0
                 ELSE IF Ninterp(S_mod_determ, SN_a) = Inf THEN 0
                 ELSE MulPow((nf4 * DamageOne) \div (3 * PROB_DEN),
                             Ninterp(S_mod_determ, SN_a), syn.m)
    IN  [stoch |-> stoch, det |-> det, Damage |-> FAdd(stoch, det)]

-----------------------------------------------------------------------------
(* External spectrum (check_fatigue == 2), lines 704-779 and 1341-1397.     *)

\* def Ninterp(L_ult,L_range,m): return (L_ult/(.5*L_range))**m, kept as the
\* ratio .5*L_range/L_ult in 1/Q_FIX; a zero range gives L_ult/0. = inf.
Ninterp_ext(L_ult, L_range) ==
    IF L_range = 0 THEN Inf ELSE Min2((L_range * Q_FIX) \div (2 * L_ult), RatioCap)

\* np.all(n) != 0
AllNonZero(n) == \A i \in 1..Len(n) : n[i] # 0

\* scp.integrate.simps(abs(n/Ninterp(L_ult,L,-1/SN_b)),x=n,even='avg')
ChannelDamage(L_ult, ch, m) ==
    Simps([i \in 1..Len(ch.n) |-> CyclesOver(ch.n[i], Ninterp_ext(L_ult, ch.L[i]), m)],
          ch.n)

\* Fx_ult = SN_a*(pi/4.*(D**2-D_in**2))
Fx_ult(D, Din) == (SN_a * Area(D, Din)) \div NormScale
\* Myz_ult = SN_a*(pi*(D**4-D_in**4))/(D*64.)
Myz_ult(D, Din) == (SN_a * SectionModulus(D, Din)) \div BendScale
\* Mx_ult = SN_a*(pi*(D**4-D_in**4))/(32*(3)**.5*D) = Myz_ult*2/sqrt(3)
Mx_ult(D, Din) == (Myz_ult(D, Din) * 1155) \div 1000
\* Fyz_ult: .../(D_max*64.)/L_rb at line 733, .../(D_max*32*L_rb) at line 1370
Fyz_ult(config, D, Din, L_rb) ==
    IF config = "4pt" THEN Myz_ult(D, Din) \div L_rb ELSE (2 * Myz_ult(D, Din)) \div L_rb

\* One pass of the upwind damage sum (lines 731-749, 1368-1386)
ExtDamageUp(config, D, Din, ext) ==
    LET t(ult, ch) == IF ult # 0 /\ AllNonZero(ch.n) THEN ChannelDamage(ult, ch, ext.m)
                      ELSE 0
        fyz == Fyz_ult(config, D, Din, ext.L_rb)
    IN  FAdd(FAdd(FAdd(t(Fx_ult(D, Din), ext.Fx), t(fyz, ext.Fy)),
                  FAdd(t(fyz, ext.Fz), t(Mx_ult(D, Din), ext.Mx))),
             FAdd(t(Myz_ult(D, Din), ext.My), t(Myz_ult(D, Din), ext.Mz)))

\* One pass of the downwind damage sum (lines 763-769): thrust and torque only,
\* tested on the ultimate load alone.
ExtDamageDown(D, Din, ext) ==
    LET t(ult, ch) == IF ult # 0 THEN ChannelDamage(ult, ch, ext.m) ELSE 0
    IN  FAdd(t(Fx_ult(D, Din), ext.Fx), t(Mx_ult(D, Din), ext.Mx))

\* A trial that starts from the damage the previous trial left
TrialStart_carry(prev) == IF prev = Undef THEN 0 ELSE prev

\* The damage scalar at the start of a trial: "Damage = 0" (lines 731, 763,
\* 1368); the synthesized trials assign the integral to it (608, 662, 1307).
TrialStart(prev) == 0

\* The damage a trial compares with 1: its contributions added to TrialStart
TrialDamage(prev, sum) == FAdd(TrialStart(prev), sum)

\* Damage < 1 (line 619) and Damage <= 1 (line 754) on floats
BelowOne(d)  == IsNum(d) /\ d < DamageOne
AtMostOne(d) == IsNum(d) /\ d <= DamageOne

-----------------------------------------------------------------------------
(* Inputs *)

Configs == {"4pt", "3pt"}
CheckFatigueVals == {0, 1, 2, 3}
ShaftRatioVals == {0, 2, 3}
LengthMaxVals ==
    {0 - dL_first, 0} \cup { L_ms_0 + k * dL_first : k \in 0..MaxSpanSteps }

\* Design lives: 0 gives N_f <= 0; 2 is short enough for the rounded cycle bins
\* to repeat; 4 and 8 give distinct bins.
TLifeVals == {0, 2, 4, 8}

\* Load levels of the synthesized spectrum per configuration: thrust, torque and
\* bending amplitudes, mean thrust and torque, rotor weight moment rotorWeight*L_rb
\* and gearbox moment gbxWeight*L_gb (L_gb = 0.0 at line 165, 0 at line 1029).
SynthLoads(config) ==
    IF config = "4pt"
    THEN { [FxAmp |-> 145, MxAmp |-> 145, MbAmp |-> 430, Fx_mean |-> 283,
            Mx_mean |-> 283, W_Lrb |-> 600, Gbx_Lgb |-> 0],
           [FxAmp |-> 500, MxAmp |-> 500, MbAmp |-> 1500, Fx_mean |-> 1000,
            Mx_mean |-> 1000, W_Lrb |-> 1200, Gbx_Lgb |-> 0],
           \* a level whose damage is exactly 1 at a solid 4.9 m seat for T_life = 4
           [FxAmp |-> 145, MxAmp |-> 145, MbAmp |-> 440, Fx_mean |-> 148,
            Mx_mean |-> 148, W_Lrb |-> 600, Gbx_Lgb |-> 0] }
    ELSE { [FxAmp |-> 5, MxAmp |-> 5, MbAmp |-> 11, Fx_mean |-> 8,
            Mx_mean |-> 8, W_Lrb |-> 10, Gbx_Lgb |-> 0],
           [FxAmp |-> 20, MxAmp |-> 20, MbAmp |-> 40, Fx_mean |-> 30,
            Mx_mean |-> 30, W_Lrb |-> 40, Gbx_Lgb |-> 0] }

SynthCase(T, ld) ==
    [cyc |-> 1, T_life |-> T, pIn |-> PROB_DEN, pOut |-> 1, m |-> 2,
     FxAmp |-> ld.FxAmp, MxAmp |-> ld.MxAmp, MbAmp |-> ld.MbAmp,
     Fx_mean |-> ld.Fx_mean, Mx_mean |-> ld.Mx_mean,
     W_Lrb |-> ld.W_Lrb, Gbx_Lgb |-> ld.Gbx_Lgb]

SynthCases(config) == { SynthCase(T, ld) : T \in TLifeVals, ld \in SynthLoads(config) }

\* One channel of an external spectrum: load ranges L and their cycle counts n
Chan(L, n) == [L |-> L, n |-> n]

\* External spectra, in units of k load units: ordinary (light and heavy), all
\* ranges zero with distinct and with repeated counts, one channel whose
\* counts contain a zero, and one channel whose ranges and counts are all zero.
ExtSpectra(k) ==
    LET up   == <<1, 2, 4>>
        lite == Chan(<<6 * k, 4 * k, 2 * k>>, up)
        hvy  == Chan(<<600 * k, 400 * k, 200 * k>>, up)
        zero == Chan(<<0, 0, 0>>, <<1, 2, 3>>)
        zdup == Chan(<<0, 0, 0>>, <<5, 5, 7>>)
        degn == Chan(<<6 * k, 4 * k, 2 * k>>, <<0, 2, 4>>)
        dead == Chan(<<0, 0, 0>>, <<0, 0, 0>>)
        all(c) == [Fx |-> c, Fy |-> c, Fz |-> c, Mx |-> c, My |-> c, Mz |-> c]
    IN  { all(lite), all(hvy), all(zero), all(zdup), [all(lite) EXCEPT !.Fx = degn],
          [all(lite) EXCEPT !.Fx = dead] }

ExtCase(sp) ==
    [m |-> 2, L_rb |-> 2, Fx |-> sp.Fx, Fy |-> sp.Fy, Fz |-> sp.Fz,
     Mx |-> sp.Mx, My |-> sp.My, Mz |-> sp.Mz]

ExtCases(config) ==
    { ExtCase(sp) : sp \in ExtSpectra(IF config = "4pt" THEN 150 ELSE 7) }

NoSynth(config) == SynthCase(0, CHOOSE ld \in SynthLoads(config) : TRUE)
NoExt           == ExtCase(CHOOSE sp \in ExtSpectra(0) : TRUE)

Inputs ==
    { [config |-> c, check_fatigue |-> cf, sR |-> sr, length_max |-> lm,
       mb1Type |-> "CARB", mb2Type |-> "SRB", syn |-> sy, ext |-> ex] :
        c \in Configs, cf \in CheckFatigueVals, sr \in ShaftRatioVals,
        lm \in LengthMaxVals, sy \in SynthCases("4pt") \cup SynthCases("3pt"),
        ex \in ExtCases("4pt") \cup ExtCases("3pt") \cup {NoExt} }

ValidInput(i) ==
    /\ i.syn \in (IF i.check_fatigue = 1 THEN SynthCases(i.config) ELSE {NoSynth(i.config)})
    /\ i.ext \in (IF i.check_fatigue = 2 THEN ExtCases(i.config) ELSE {NoExt})

NoBeam == [theta |-> Undef, dmax |-> Undef, dmin |-> Undef, dmed |-> Undef]

\* The static result, as the fatigue stage finds it.
StaticOf(dmax, dmin, dmed, din) ==
    [D_max |-> dmax, D_min |-> dmin, D_med |-> dmed, D_in |-> din]

NoOutput ==
    [status |-> "running", diameter1 |-> Undef, diameter2 |-> Undef, D_in |-> Undef,
     D_outer |-> Undef, lengthSpan |-> Undef, massSpan |-> Undef, brgSpan |-> Undef]

\* History of the run, kept for the properties: passes of each loop, the beam
\* result of the current spans, how each span loop was left, the static result,
\* the trials of each fatigue search and how it ended, and the two parts of the
\* last damage sum.  For runs of two consecutive calls on one instance: which
\* call this is (0: a single call), the beam results of the first call in the
\* order they were computed, how many the current call has computed, and the
\* outputs the first call left; theta is the slope theta_y[-1] of the last pass
\* of the first span loop.
Hist0 ==
    [call |-> 0, log |-> <<>>, idx |-> 0, prevOut |-> NoOutput, theta |-> Undef,
     passes1 |-> 0, passes2 |-> 0, inner |-> 0,
     beamKey |-> <<Undef, Undef>>, beam |-> NoBeam,
     exit1 |-> "none", exit2 |-> "none",
     static |-> StaticOf(Undef, Undef, Undef, Undef),
     trialsUp |-> 0, trialsDn |-> 0, endUp |-> "none", endDn |-> "none",
     stoch |-> Undef, det |-> Undef]

\* The beam equations are a function of the inputs and the spans: the second of
\* two calls with the same inputs computes, pass by pass, what the first did.
SameBeam(r) ==
    (hist.call = 2 /\ hist.idx < Len(hist.log)) => r = hist.log[hist.idx + 1]

\* hist after a pass of the beam equations that returned r
Logged(h, r) ==
    [h EXCEPT !.log = IF h.call = 1 THEN Append(@, r) ELSE @,
              !.idx = IF h.call = 0 THEN @ ELSE @ + 1]

Init ==
    /\ inp \in { i \in Inputs : ValidInput(i) }
    /\ pc = "loop1"
    /\ L_ms = L_ms_0 /\ L_ms_new = 0
    /\ L_mb = Undef /\ L_mb_new = Undef
    /\ L_ms_gb = Undef /\ L_ms_gb_new = Undef /\ L_ms__gb_new = Undef
    /\ check_limit = check_limit_0 /\ check_limit_ms = Undef
    /\ counter = 0 /\ counter_ms = Undef
    /\ D_max = D_max_0 /\ D_min = D_min_0 /\ D_med = Undef /\ D_in = Undef
    /\ Damage = Undef /\ D_max_a = Undef /\ D_med_a = Undef /\ D_min_a = Undef
    /\ out = NoOutput
    /\ hist = Hist0

\* How a span loop is left: the slope is within tol of the limit, the next
\* candidate span has reached length_max, both, or neither; "nan" when neither
\* holds and the slope check is NaN.
ExitKind(chk, L_new, lmax) ==
    LET slope  == LE(Abs(chk), tol)
        length == L_new >= lmax
    IN  IF slope /\ length THEN "both"
        ELSE IF slope THEN "slope"
        ELSE IF length THEN "length"
        ELSE IF chk = NaN THEN "nan"
        ELSE "neither"

-----------------------------------------------------------------------------
(* Static Diameter Solver: first span loop (4-point, lines 189-284) and the  *)
(* only span loop of the 3-point model (lines 1015-1154).                   *)

FirstLoopPass ==
    /\ pc = "loop1"
    /\ SpanLoopGuard(check_limit, L_ms_new, inp.length_max)
    /\ \E r \in BeamResults(inp.config) :
        LET L    == IF L_ms_new > 0 THEN L_ms_new ELSE L_ms_0
            Din  == BoreOf(inp.sR, r.dmax)
        IN  /\ SameBeam(r)
            /\ counter' = counter + 1
            /\ L_ms' = L
            /\ D_in' = Din
            /\ D_max' = Hollow(r.dmax, Din)
            /\ D_min' = Hollow(r.dmin, Din)
            /\ check_limit' = CheckLimitOf(r.theta)
            /\ L_ms_new' = L + dL_first
            /\ hist' = [Logged(hist, r) EXCEPT !.passes1 = @ + 1, !.theta = r.theta]
    /\ UNCHANGED <<inp, pc, L_mb, L_mb_new, L_ms_gb, L_ms_gb_new, L_ms__gb_new,
                   check_limit_ms, counter_ms, D_med, fatVars, out>>

\* 4-point: leave the first loop and initialise the second (lines 286-294).
FirstLoopExit4pt ==
    /\ pc = "loop1" /\ inp.config = "4pt"
    /\ ~SpanLoopGuard(check_limit, L_ms_new, inp.length_max)
    /\ pc' = "loop2"
    /\ L_mb' = L_ms_new
    /\ counter_ms' = 0
    /\ check_limit_ms' = check_limit_0
    /\ L_mb_new' = 0
    /\ L_ms' = L_ms_new
    /\ hist' = [hist EXCEPT !.exit1 = ExitKind(check_limit, L_ms_new, inp.length_max)]
    /\ UNCHANGED <<inp, L_ms_new, L_ms_gb, L_ms_gb_new, L_ms__gb_new, check_limit,
                   counter, diamVars, fatVars, out>>

\* 3-point: leave the loop for the fatigue stage (line 1157).
LoopExit3pt ==
    /\ pc = "loop1" /\ inp.config = "3pt"
    /\ ~SpanLoopGuard(check_limit, L_ms_new, inp.length_max)
    /\ pc' = "fatigue"
    /\ hist' = [hist EXCEPT !.static = StaticOf(D_max, D_min, D_med, D_in),
                            !.exit1 = ExitKind(check_limit, L_ms_new, inp.length_max)]
    /\ UNCHANGED <<inp, spanVars, diamVars, fatVars, out>>

-----------------------------------------------------------------------------
(* 4-point: second span loop with its nested loop (lines 296-437)           *)

SecondLoopPass ==
    /\ pc = "loop2"
    /\ SpanLoopGuard(check_limit_ms, L_mb_new, inp.length_max)
    /\ pc' = "inner"
    /\ counter_ms' = counter_ms + 1
    /\ L_mb' = IF L_mb_new > 0 THEN L_mb_new ELSE L_mb
    /\ counter' = 0
    /\ check_limit' = check_limit_0
    /\ L_ms_gb_new' = 0
    /\ L_ms' = L_ms_0
    /\ hist' = [hist EXCEPT !.passes2 = @ + 1, !.inner = 0, !.theta = Undef]
    /\ UNCHANGED <<inp, L_ms_new, L_mb_new, L_ms_gb, L_ms__gb_new, check_limit_ms,
                   diamVars, fatVars, out>>

\* while abs(check_limit) > tol and counter < N_count_2
InnerLoopGuard(chk, cnt) == GT(Abs(chk), tol) /\ cnt < N_count_2

InnerLoopPass ==
    /\ pc = "inner"
    /\ InnerLoopGuard(check_limit, counter)
    /\ \E r \in BeamResults(inp.config) :
        LET Lgb  == IF L_ms_gb_new > 0 THEN L_ms_gb_new ELSE L_ms_0
            key  == <<L_mb, Lgb>>
            Din  == BoreOf(inp.sR, r.dmax)
        IN  /\ (hist.beamKey = key => r = hist.beam)
            /\ SameBeam(r)
            /\ counter' = counter + 1
            /\ L_ms_gb' = Lgb
            /\ D_in' = Din
            /\ D_max' = Hollow(r.dmax, Din)
            /\ D_min' = Hollow(r.dmin, Din)
            /\ D_med' = Hollow(r.dmed, Din)
            /\ check_limit' = CheckLimitOf(r.theta)
            /\ L_ms__gb_new' = Lgb + dL_second
            /\ check_limit_ms' = CheckLimitOf(r.theta)
            /\ L_mb_new' = L_mb + dL_ms
            /\ hist' = [Logged(hist, r) EXCEPT !.inner = @ + 1, !.beamKey = key, !.beam = r]
    /\ UNCHANGED <<inp, pc, L_ms, L_ms_new, L_mb, L_ms_gb_new, counter_ms,
                   fatVars, out>>

InnerLoopExit ==
    /\ pc = "inner"
    /\ ~InnerLoopGuard(check_limit, counter)
    /\ pc' = "loop2"
    /\ UNCHANGED <<inp, spanVars, diamVars, fatVars, out, hist>>

SecondLoopExit ==
    /\ pc = "loop2"
    /\ ~SpanLoopGuard(check_limit_ms, L_mb_new, inp.length_max)
    /\ pc' = "fatigue"
    /\ hist' = [hist EXCEPT !.static = StaticOf(D_max, D_min, D_med, D_in),
                            !.exit2 = ExitKind(check_limit_ms, L_mb_new, inp.length_max)]
    /\ UNCHANGED <<inp, spanVars, diamVars, fatVars, out>>

-----------------------------------------------------------------------------
(* Fatigue Diameter Solver and bypass                                       *)

\* Which branch execute() takes: "if check_fatigue == 1 or check_fatigue == 2
\* ... else" (lines 440, 480, 704, 801) in the 4-point model; "if check_fatigue
\* == 1 or 2" with "if check_fatigue == 1 / elif check_fatigue == 2" inside and
\* "if check_fatigue == 0" after it (lines 1157, 1192, 1341, 1415) in the 3-point.
\* An execute() without the bypass branch
FatigueMode_noBypass(i) == IF i.check_fatigue = 1 THEN "synth" ELSE "ext"

FatigueMode(i) ==
    IF i.check_fatigue = 1 THEN "synth"
    ELSE IF i.check_fatigue = 2 THEN "ext"
    ELSE IF i.config = "4pt" \/ i.check_fatigue = 0 THEN "bypass"
    ELSE "none"

\* diameter_limit of a search (lines 576, 629, 727, 1277, 1364)
diameter_limit(config, mode) ==
    IF config = "3pt" /\ mode = "synth" THEN diameter_limit_3pt ELSE diameter_limit_5

\* A search whose step is subtracted
StepUp_down(D) == D - iterationstep

\* D_max+=iterationstep
StepUp(D) == D + iterationstep

\* A search that tests the damage only
SynthBreak_noLimit(d, D, limit) == BelowOne(d)

\* if Damage < 1 or D_max >= diameter_limit: break       (synthesized)
SynthBreak(d, D, limit) == BelowOne(d) \/ D >= limit
\* if Damage <= 1 or D_max >= diameter_limit: break      (external)
ExtBreak(d, D, limit) == AtMostOne(d) \/ D >= limit

\* How a search ended on the pass that broke out of it: on the damage test, or
\* on diameter_limit with the damage d above the threshold ("nan": with d NaN)
EndKind(within, d) == IF within THEN "damage" ELSE IF d = NaN THEN "nan" ELSE "limit"

\* An uncaught exception leaves execute() before any output is written.
Raise(e) ==
    /\ pc' = "error"
    /\ out' = [out EXCEPT !.status = e]

FatigueDispatch ==
    /\ pc = "fatigue"
    /\ LET mode == FatigueMode(inp)
       IN  IF mode = "synth" /\ N_f4(inp.syn) <= 0
           THEN Raise("ValueError")          \* log10(N_f) at line 518
           ELSE /\ pc' = CASE mode = "synth"  -> "syn_up"
                          [] mode = "ext"    -> "ext_up"
                          [] mode = "bypass" -> "bypass"
                          [] OTHER           -> "final"
                /\ out' = out
    /\ UNCHANGED <<inp, spanVars, diamVars, fatVars, hist>>

\* The body of "while True" at lines 579-619 (4-point) and 1279-1318 (3-point),
\* up to the test that ends the search: the bore and the corrected diameters,
\* the damage at them, and whether the search breaks.
SynthUpStep(config, sR, dmax, dmin, dmed, syn) ==
    LET Din == BoreOf(sR, dmax)
        Dmx == Hollow(dmax, Din)
        dmg == SynthDamage(Dmx, Din, syn, syn.MbAmp, syn.W_Lrb, FALSE)
    IN  [D_in |-> Din, D_max |-> Dmx, D_min |-> Hollow(dmin, Din),
         D_med |-> IF config = "4pt" THEN Hollow(dmed, Din) ELSE dmed,
         dmg |-> dmg,
         brk |-> SynthBreak(dmg.Damage, Dmx, diameter_limit(config, "synth"))]

\* The seat diameter the whole upwind search returns from the given diameters
RECURSIVE SynthSolveUp(_, _, _, _, _, _)
SynthSolveUp(config, sR, dmax, dmin, dmed, syn) ==
    LET st == SynthUpStep(config, sR, dmax, dmin, dmed, syn)
    IN  IF st.brk THEN st.D_max
        ELSE SynthSolveUp(config, sR, StepUp(st.D_max), st.D_min, st.D_med, syn)

\* One pass of "while True" at lines 578-626 (4-point) and 1278-1325 (3-point)
SynthUpwindTrial ==
    /\ pc = "syn_up"
    /\ IF inp.config = "4pt" /\ D_med = Undef
       THEN /\ Raise("NameError")            \* D_med at line 582
            /\ UNCHANGED <<diamVars, fatVars, hist>>
       ELSE LET st  == SynthUpStep(inp.config, inp.sR, D_max, D_min, D_med, inp.syn)
                dmg == TrialDamage(Damage, st.dmg.Damage)
                brk == SynthBreak(dmg, st.D_max, diameter_limit(inp.config, "synth"))
            IN  /\ D_in' = st.D_in
                /\ D_min' = st.D_min
                /\ D_med' = st.D_med
                /\ Damage' = dmg
                /\ D_max' = IF brk THEN st.D_max ELSE StepUp(st.D_max)
                /\ pc' = IF ~brk THEN pc
                         ELSE IF inp.config = "4pt" THEN "syn_dn" ELSE "bearings"
                /\ hist' = [hist EXCEPT !.trialsUp = @ + 1,
                                        !.endUp = IF brk THEN EndKind(BelowOne(dmg), dmg)
                                                  ELSE "none",
                                        !.stoch = st.dmg.stoch, !.det = st.dmg.det]
                /\ UNCHANGED <<out, D_max_a, D_med_a, D_min_a>>
    /\ UNCHANGED <<inp, spanVars>>

\* One pass of "while True" at lines 632-684 (4-point only)
SynthDownwindTrial ==
    /\ pc = "syn_dn"
    /\ LET dmg   == SynthDamage(D_med, D_in, inp.syn, 0, inp.syn.Gbx_Lgb, TRUE)
           total == TrialDamage(Damage, dmg.Damage)
           limit == diameter_limit(inp.config, "synth")
           brk   == SynthBreak(total, D_med, limit)
       IN  /\ Damage' = total
           /\ D_med' = IF brk THEN D_med ELSE StepUp(D_med)
           /\ pc' = IF brk THEN "bearings" ELSE pc
           /\ hist' = [hist EXCEPT !.trialsDn = @ + 1,
                                   !.endDn = IF brk THEN EndKind(BelowOne(total), total)
                                             ELSE "none",
                                   !.stoch = dmg.stoch, !.det = dmg.det]
    /\ UNCHANGED <<inp, spanVars, D_max, D_min, D_in, D_max_a, D_med_a, D_min_a, out>>

\* One pass of "while True" at lines 730-760 (4-point) and 1367-1397 (3-point)
ExtUpwindTrial ==
    /\ pc = "ext_up"
    /\ IF D_in = Undef
       THEN /\ Raise("NameError")            \* D_in at lines 732, 1369
            /\ UNCHANGED <<diamVars, fatVars, hist>>
       ELSE LET sum   == ExtDamageUp(inp.config, D_max, D_in, inp.ext)
                dmg   == TrialDamage(Damage, sum)
                limit == diameter_limit(inp.config, "ext")
                brk   == ExtBreak(dmg, D_max, limit)
            IN  /\ Damage' = dmg
                /\ D_max' = IF brk THEN D_max ELSE StepUp(D_max)
                /\ pc' = IF ~brk THEN pc
                         ELSE IF inp.config = "4pt" THEN "ext_dn" ELSE "bearings"
                /\ hist' = [hist EXCEPT !.trialsUp = @ + 1,
                                        !.endUp = IF brk THEN EndKind(AtMostOne(dmg), dmg)
                                                  ELSE "none",
                                        !.stoch = sum, !.det = 0]
                /\ UNCHANGED <<out, D_min, D_med, D_in, D_max_a, D_med_a, D_min_a>>
    /\ UNCHANGED <<inp, spanVars>>

\* One pass of "while True" at lines 762-779 (4-point only)
ExtDownwindTrial ==
    /\ pc = "ext_dn"
    /\ LET sum   == ExtDamageDown(D_med, D_in, inp.ext)
           dmg   == TrialDamage(Damage, sum)
           limit == diameter_limit(inp.config, "ext")
           brk   == ExtBreak(dmg, D_med, limit)
       IN  /\ Damage' = dmg
           /\ D_med' = IF brk THEN D_med ELSE StepUp(D_med)
           /\ pc' = IF brk THEN "bearings" ELSE pc
           /\ hist' = [hist EXCEPT !.trialsDn = @ + 1,
                                   !.endDn = IF brk THEN EndKind(AtMostOne(dmg), dmg)
                                             ELSE "none",
                                   !.stoch = sum, !.det = 0]
    /\ UNCHANGED <<inp, spanVars, D_max, D_min, D_in, D_max_a, D_med_a, D_min_a, out>>

-----------------------------------------------------------------------------
(* Bearing selection and the Mass/Inertia Finalizer                         *)

\* Catalogue step of a bearing family
BearingStep(type) == IF type = "CARB" THEN 5 ELSE 10

\* resize_for_bearings(D, type) of drivese_utils: the seat diameter of the
\* catalogue bearing of this family for a shaft of diameter D
resize_for_bearings(D, type) == CeilDiv(D, BearingStep(type)) * BearingStep(type)

\* fatigue_for_bearings(D, F_r, F_a, N_array, life_bearing, type) and
\* fatigue2_for_bearings(D, type, ...) of drivese_utils: the seat diameter of
\* the catalogue bearing selected for the shaft of diameter D
fatigue_for_bearings(D, type)  == resize_for_bearings(D, type)
fatigue2_for_bearings(D, type) == resize_for_bearings(D, type)

\* Lines 686-702 and 781-799 (4-point), 1327-1339 and 1399-1412 (3-point)
SelectBearings ==
    /\ pc = "bearings"
    /\ LET mode == FatigueMode(inp)
       IN  IF inp.config = "3pt" /\ mode = "synth" /\ hist.passes1 = 0
           THEN /\ Raise("NameError")        \* weightGbx, L_gb at line 1332
                /\ UNCHANGED <<D_max_a, D_med_a>>
           ELSE /\ D_max_a' = IF mode = "synth" THEN fatigue_for_bearings(D_max, inp.mb1Type)
                              ELSE fatigue2_for_bearings(D_max, inp.mb1Type)
                /\ D_med_a' = IF inp.config = "3pt" THEN D_med_a
                              ELSE IF mode = "synth"
                                   THEN fatigue_for_bearings(D_med, inp.mb2Type)
                                   ELSE fatigue2_for_bearings(D_med, inp.mb2Type)
                /\ pc' = "final"
                /\ out' = out
    /\ UNCHANGED <<inp, spanVars, diamVars, Damage, D_min_a, hist>>

\* Lines 801-803 (4-point) and 1415-1416 (3-point)
Bypass ==
    /\ pc = "bypass"
    /\ D_max_a' = resize_for_bearings(D_max, inp.mb1Type)
    /\ IF inp.config = "4pt" /\ D_med = Undef
       THEN /\ Raise("NameError")            \* D_med at line 803
            /\ D_med_a' = D_med_a
       ELSE /\ D_med_a' = IF inp.config = "4pt" THEN resize_for_bearings(D_med, inp.mb2Type)
                          ELSE D_med_a
            /\ pc' = "final"
            /\ out' = out
    /\ UNCHANGED <<inp, spanVars, diamVars, Damage, D_min_a, hist>>

\* Lines 807-861 (4-point) and 1418-1476 (3-point).  Of the outputs, the model
\* keeps the diameters and the span each length-dependent output is built on.
Finalize ==
    /\ pc = "final"
    /\ D_min_a' = IF inp.config = "3pt" THEN resize_for_bearings(D_min, inp.mb2Type)
                  ELSE D_min_a
    /\ IF D_max_a = Undef \/ D_in = Undef
       THEN Raise("NameError")               \* D_max_a, D_in at lines 1420-1421
       ELSE /\ pc' = "done"
            /\ out' = IF inp.config = "4pt"
                      THEN [status |-> "ok", diameter1 |-> D_max_a, diameter2 |-> D_med_a,
                            D_in |-> D_in, D_outer |-> D_max, lengthSpan |-> L_mb_new,
                            massSpan |-> L_mb, brgSpan |-> L_mb_new]
                      ELSE [status |-> "ok", diameter1 |-> D_max_a, diameter2 |-> D_min_a',
                            D_in |-> D_in, D_outer |-> D_max_a, lengthSpan |-> L_ms_new,
                            massSpan |-> L_ms, brgSpan |-> L_ms]
    /\ UNCHANGED <<inp, spanVars, diamVars, Damage, D_max_a, D_med_a, hist>>

-----------------------------------------------------------------------------
(* Two consecutive execute() calls on one instance with the same inputs      *)

\* A local of execute() is bound anew by each call (lines 143-155, 986-994)
\* A local that kept the value the previous call left in it
Fresh_stale(init, old) == old

Fresh(init, old) == init

\* Inputs of the two-call runs
TwoCallInputs ==
    { i \in Inputs : /\ ValidInput(i)
                     /\ i.length_max \in {0, L_ms_0 + dL_first}
                     /\ i.sR \in {0, 3}
                     /\ i.syn.T_life \in {0, 4} }

InitTwoCalls ==
    /\ inp \in TwoCallInputs
    /\ pc = "loop1"
    /\ L_ms = L_ms_0 /\ L_ms_new = 0
    /\ L_mb = Undef /\ L_mb_new = Undef
    /\ L_ms_gb = Undef /\ L_ms_gb_new = Undef /\ L_ms__gb_new = Undef
    /\ check_limit = check_limit_0 /\ check_limit_ms = Undef
    /\ counter = 0 /\ counter_ms = Undef
    /\ D_max = D_max_0 /\ D_min = D_min_0 /\ D_med = Undef /\ D_in = Undef
    /\ Damage = Undef /\ D_max_a = Undef /\ D_med_a = Undef /\ D_min_a = Undef
    /\ out = NoOutput
    /\ hist = [Hist0 EXCEPT !.call = 1]

\* The caller runs execute() again: the inputs and the attributes the first call
\* wrote are still on the instance, every local starts over.
SecondCall ==
    /\ pc \in {"done", "error"} /\ hist.call = 1
    /\ pc' = "loop1"
    /\ L_ms' = Fresh(L_ms_0, L_ms) /\ L_ms_new' = Fresh(0, L_ms_new)
    /\ L_mb' = Fresh(Undef, L_mb) /\ L_mb_new' = Fresh(Undef, L_mb_new)
    /\ L_ms_gb' = Fresh(Undef, L_ms_gb) /\ L_ms_gb_new' = Fresh(Undef, L_ms_gb_new)
    /\ L_ms__gb_new' = Fresh(Undef, L_ms__gb_new)
    /\ check_limit' = Fresh(check_limit_0, check_limit)
    /\ check_limit_ms' = Fresh(Undef, check_limit_ms)
    /\ counter' = Fresh(0, counter) /\ counter_ms' = Fresh(Undef, counter_ms)
    /\ D_max' = Fresh(D_max_0, D_max) /\ D_min' = Fresh(D_min_0, D_min)
    /\ D_med' = Fresh(Undef, D_med) /\ D_in' = Fresh(Undef, D_in)
    /\ Damage' = Fresh(Undef, Damage) /\ D_max_a' = Fresh(Undef, D_max_a)
    /\ D_med_a' = Fresh(Undef, D_med_a) /\ D_min_a' = Fresh(Undef, D_min_a)
    /\ hist' = [Hist0 EXCEPT !.call = 2, !.log = hist.log, !.prevOut = out]
    /\ UNCHANGED <<inp, out>>

-----------------------------------------------------------------------------

Next ==
    \/ FirstLoopPass
    \/ FirstLoopExit4pt
    \/ LoopExit3pt
    \/ SecondLoopPass
    \/ InnerLoopPass
    \/ InnerLoopExit
    \/ SecondLoopExit
    \/ FatigueDispatch
    \/ SynthUpwindTrial
    \/ SynthDownwindTrial
    \/ ExtUpwindTrial
    \/ ExtDownwindTrial
    \/ SelectBearings
    \/ Bypass
    \/ Finalize

Spec == Init /\ [][Next]_vars

NextTwoCalls == Next \/ SecondCall

SpecTwoCalls == InitTwoCalls /\ [][NextTwoCalls]_vars

-----------------------------------------------------------------------------
(* Properties                                                               *)

FatiguePcs == {"syn_up", "syn_dn", "ext_up", "ext_dn", "bearings", "final", "done"}

\* The span search stopped on length_max with the slope check not passed
GeometryInfeasible == hist.exit1 = "length" \/ hist.exit2 = "length"

\* A fatigue search stopped on diameter_limit with the damage above the threshold
FatigueInfeasible == hist.endUp = "limit" \/ hist.endDn = "limit"

\* C1: when the span-length search stops because the next candidate span has
\* reached length_max while the slope check has not passed, execute() reports a
\* failure: it does not go on to fatigue and bearing sizing and write its
\* outputs as if the search had succeeded.
C1_InfeasibleGeometryReported ==
    GeometryInfeasible => pc \notin FatiguePcs \/ out.status # "ok"

\* C2: when a fatigue diameter search reaches diameter_limit while the damage
\* is still above 1, execute() reports a failure: that diameter is not passed on
\* to bearing selection and the outputs.
C2_InfeasibleFatigueReported ==
    FatigueInfeasible => pc \notin {"bearings", "final", "done"}

\* A loop whose candidate grows by dL from 0 made p passes below lmax
PassesBound(p, dL, lmax) == p = 0 \/ (lmax > 0 /\ (p - 1) * dL < lmax)

\* A search from diameter d0 made t trials below limit
TrialsBound(t, d0, limit) == t <= 1 \/ d0 + (t - 2) * iterationstep < limit

\* C3: every loop terminates: a span loop makes at most one pass per 0.05 step
\* below length_max, the nested loop at most N_count_2 passes per outer pass, a
\* fatigue search at most one trial per 0.01 step below diameter_limit, whatever
\* slope and damage (NaN included) are computed.
C3_LoopsBounded ==
    /\ PassesBound(hist.passes1, dL_first, inp.length_max)
    /\ PassesBound(hist.passes2, dL_ms, inp.length_max)
    /\ hist.inner <= N_count_2
    /\ TrialsBound(hist.trialsUp, hist.static.D_max,
                   diameter_limit(inp.config, FatigueMode(inp)))
    /\ TrialsBound(hist.trialsDn, hist.static.D_med,
                   diameter_limit(inp.config, FatigueMode(inp)))

\* A search ran to diameter_limit through NaN damage after span loops that ran
\* to length_max, one of them through a NaN slope.
C3_Witness ==
    /\ pc = "done" /\ Damage = NaN /\ hist.endUp = "nan" /\ hist.trialsUp >= 10
    /\ hist.passes1 >= MaxSpanSteps /\ hist.exit1 = "length" /\ check_limit_ms = NaN

C5_OuterAtLeastBore ==
    IsNum(D_in) =>
        /\ D_max >= D_in
        /\ D_min >= D_in
        /\ (IsNum(D_med) => D_med >= D_in)

\* A fatigue search has run on a shaft whose bore is larger than the sized
\* gearbox-end diameter.
C5_Witness ==
    /\ inp.sR > 0 /\ hist.trialsUp >= 2 /\ pc \in {"syn_dn", "bearings"}
    /\ \E d \in DminVals(inp.config) : D_in > d

\* C6: with check_fatigue = 0 no damage loop runs, and diameter1 and diameter2
\* are resize_for_bearings at the static D_max and at the static D_med (4-point)
\* or D_min (3-point), with the bearing type of the seat.
C6_BypassEquivalence ==
    inp.check_fatigue = 0 =>
        /\ hist.trialsUp = 0 /\ hist.trialsDn = 0 /\ Damage = Undef
        /\ pc = "done" =>
            /\ out.diameter1 = resize_for_bearings(hist.static.D_max, inp.mb1Type)
            /\ out.diameter2 =
                   resize_for_bearings(IF inp.config = "4pt" THEN hist.static.D_med
                                       ELSE hist.static.D_min, inp.mb2Type)

\* execute() returned in bypass mode with two different seat diameters.
C6_Witness ==
    /\ inp.check_fatigue = 0 /\ pc = "done" /\ out.status = "ok"
    /\ out.diameter1 # out.diameter2

\* C7: in both fatigue modes and both configurations no step of a search
\* decreases D_max or D_med: the diameter that leaves a search is never smaller
\* than the one the static solver produced for the seat.
C7_NeverBelowStatic ==
    pc \in FatiguePcs =>
        /\ D_max >= hist.static.D_max
        /\ (IsNum(D_med) => D_med >= hist.static.D_med)

\* Both searches of a 4-point run ended above the static diameters.
C7_Witness ==
    /\ pc = "bearings" /\ D_max > hist.static.D_max /\ IsNum(D_med)
    /\ D_med > hist.static.D_med /\ hist.endUp = "damage" /\ hist.endDn = "damage"

\* C8: every diameter a fatigue search hands to bearing selection is strictly
\* less than its diameter_limit.
C8_BelowLimit ==
    pc = "bearings" =>
        /\ D_max < diameter_limit(inp.config, FatigueMode(inp))
        /\ (inp.config = "4pt" => D_med < diameter_limit(inp.config, FatigueMode(inp)))

\* C9: of two runs that differ only in T_life, the second with twice the first's,
\* the second solves a seat diameter >= the first's.
C9_LifeMonotone ==
    (/\ FatigueMode(inp) = "synth" /\ hist.endUp # "none"
     /\ inp.syn.T_life > 0 /\ 2 * inp.syn.T_life \in TLifeVals)
    => SynthSolveUp(inp.config, inp.sR, hist.static.D_max, hist.static.D_min,
                    hist.static.D_med, [inp.syn EXCEPT !.T_life = 2 * @]) >= D_max

\* Every load range of the external spectrum is zero
ZeroSpectrum(ext) ==
    \A ch \in {ext.Fx, ext.Fy, ext.Fz, ext.Mx, ext.My, ext.Mz} :
        \A i \in 1..Len(ch.L) : ch.L[i] = 0

\* C10: when every load range of the spectrum is zero, the damage of a trial is
\* the deterministic term alone: the stochastic part is exactly zero and no NaN
\* enters the damage that is compared with 1.
C10_ZeroSpectrumDamage ==
    (FatigueMode(inp) = "ext" /\ ZeroSpectrum(inp.ext) /\ hist.trialsUp >= 1)
    => Damage # NaN /\ hist.stoch = 0 /\ Damage = hist.det

\* A channel whose load ranges and cycle counts are all zero
DegenerateChannel(ch) ==
    /\ \A i \in 1..Len(ch.L) : ch.L[i] = 0
    /\ \A i \in 1..Len(ch.n) : ch.n[i] = 0

\* C11: in external mode a channel whose ranges and counts are all zero is
\* skipped at both seats: the damage of every trial, upwind and downwind, is a
\* number (no NaN from the degenerate channel) and no search ends on a NaN.
C11_DegenerateChannelSkipped ==
    (/\ FatigueMode(inp) = "ext" /\ hist.trialsUp >= 1
     /\ \E ch \in {inp.ext.Fx, inp.ext.Fy, inp.ext.Fz, inp.ext.Mx, inp.ext.My, inp.ext.Mz} :
            DegenerateChannel(ch))
    => Damage # NaN /\ hist.endUp # "nan" /\ hist.endDn # "nan"

\* C12: a trial whose cumulative damage is exactly 1 is accepted in every
\* fatigue search, synthesized or external: a search that goes on after a trial
\* (the diameter was increased) did not see a damage of exactly 1.
C12_DamageOneAccepted ==
    /\ (pc \in {"syn_up", "ext_up"} /\ hist.trialsUp >= 1) => Damage # DamageOne
    /\ (pc \in {"syn_dn", "ext_dn"} /\ hist.trialsDn >= 1) => Damage # DamageOne
-----------------------------------------------------------------------------
(* The synthesized load spectrum as a function of the rotor (lines 480-542,  *)
(* 1192-1257): cycle bins N, standard ranges F_stoch, the four channels.     *)

\* log(rotor_diameter), natural logarithm in 1/1000, rotor diameter in metres
log(d) ==
    CASE d = 10 -> 2303 [] d = 15 -> 2708 [] d = 20 -> 2996 [] d = 25 -> 3219
      [] d = 40 -> 3689 [] d = 70 -> 4248 [] d = 100 -> 4605 [] d = 126 -> 4836

\* Fx_factor = (.3649*log(rotor_diameter)-1.074) and the three moment factors,
\* in 1/10000
Fx_factor(d) == (3649 * log(d)) \div 1000 - 10740
Mx_factor(d) == (799 * log(d)) \div 1000 - 2577
My_factor(d) == (1720 * log(d)) \div 1000 - 5943
Mz_factor(d) == (1659 * log(d)) \div 1000 - 5795

\* The products that multiply F_stoch: 0.5*p_o*R, 0.45*p_o*R**2 and
\* 0.33*p_o*k_r*R**2 (k_r = 0.8), each times its factor; R = rotor_diameter/2.
FxAmpOf(d, p_o) == (((p_o * d) \div 4) * Fx_factor(d)) \div 10000
MxAmpOf(d, p_o) == (((45 * p_o * d * d) \div 400) * Mx_factor(d)) \div 10000
MyAmpOf(d, p_o) == (((264 * p_o * d * d) \div 4000) * My_factor(d)) \div 10000
MzAmpOf(d, p_o) == (((264 * p_o * d * d) \div 4000) * Mz_factor(d)) \div 10000

\* Rotors and lifetimes for which the spectrum is built: rotor diameters in
\* metres, p_o (a positive blade load per unit length) and T_life with N_f
\* large enough that rounding the last bin up leaves its standard range positive
SpectrumInputs ==
    { [rotor_diameter |-> d, p_o |-> p, syn |-> SynthCase(T, NoSynth("4pt"))] :
        d \in {15, 25, 40, 126}, p \in {100, 200, 400}, T \in {4, 8, 16, 32} }

InitSpectrum ==
    /\ inp \in SpectrumInputs
    /\ pc = "logspace"
    /\ L_ms = Undef /\ L_ms_new = Undef
    /\ L_mb = Undef /\ L_mb_new = Undef
    /\ L_ms_gb = Undef /\ L_ms_gb_new = Undef /\ L_ms__gb_new = Undef
    /\ check_limit = Undef /\ check_limit_ms = Undef
    /\ counter = Undef /\ counter_ms = Undef
    /\ D_max = Undef /\ D_min = Undef /\ D_med = Undef /\ D_in = Undef
    /\ Damage = Undef /\ D_max_a = Undef /\ D_med_a = Undef /\ D_min_a = Undef
    /\ out = [N |-> <<>>, F_stoch |-> <<>>, Fx_stoch |-> <<>>, Mx_stoch |-> <<>>,
              My_stoch |-> <<>>, Mz_stoch |-> <<>>]
    /\ hist = Hist0

\* N=np.logspace(...) and N[i]=roundup(N[i],1), lines 519-524
CycleBins ==
    /\ pc = "logspace"
    /\ out' = [out EXCEPT !.N = N_grid(N_f4(inp.syn))]
    /\ pc' = "standardrange"
    /\ UNCHANGED <<inp, L_ms, L_ms_new, L_mb, L_mb_new, L_ms_gb, L_ms_gb_new,
                   L_ms__gb_new, check_limit, check_limit_ms, counter, counter_ms,
                   D_max, D_min, D_med, D_in, Damage, D_max_a, D_med_a, D_min_a, hist>>

\* F_stoch[i] = standardrange(N[i],N_f,Beta,k_b), lines 530-531
StandardRanges ==
    /\ pc = "standardrange"
    /\ out' = [out EXCEPT !.F_stoch = F_stoch(N_f4(inp.syn))]
    /\ pc' = "channels"
    /\ UNCHANGED <<inp, L_ms, L_ms_new, L_mb, L_mb_new, L_ms_gb, L_ms_gb_new,
                   L_ms__gb_new, check_limit, check_limit_ms, counter, counter_ms,
                   D_max, D_min, D_med, D_in, Damage, D_max_a, D_med_a, D_min_a, hist>>

\* Fx_stoch, Mx_stoch, My_stoch, Mz_stoch, lines 534-542
ScaleChannels ==
    /\ pc = "channels"
    /\ out' = [out EXCEPT
                 !.Fx_stoch = Scaled(out.F_stoch, FxAmpOf(inp.rotor_diameter, inp.p_o)),
                 !.Mx_stoch = Scaled(out.F_stoch, MxAmpOf(inp.rotor_diameter, inp.p_o)),
                 !.My_stoch = Scaled(out.F_stoch, MyAmpOf(inp.rotor_diameter, inp.p_o)),
                 !.Mz_stoch = Scaled(out.F_stoch, MzAmpOf(inp.rotor_diameter, inp.p_o))]
    /\ pc' = "spectrum"
    /\ UNCHANGED <<inp, L_ms, L_ms_new, L_mb, L_mb_new, L_ms_gb, L_ms_gb_new,
                   L_ms__gb_new, check_limit, check_limit_ms, counter, counter_ms,
                   D_max, D_min, D_med, D_in, Damage, D_max_a, D_med_a, D_min_a, hist>>

NextSpectrum == CycleBins \/ StandardRanges \/ ScaleChannels

SpecSpectrum == InitSpectrum /\ [][NextSpectrum]_vars

\* C14: in synthesized mode, for every rotor diameter above zero and valid wind
\* parameters, each channel's load ranges (Fx_stoch, Mx_stoch, My_stoch,
\* Mz_stoch) are finite and non-negative in every bin, and the cycle counts N
\* are non-decreasing over the bins.
C14_SpectrumNonNegativeMonotone ==
    pc = "spectrum" =>
        /\ \A ch \in {out.Fx_stoch, out.Mx_stoch, out.My_stoch, out.Mz_stoch} :
               \A i \in 1..Len(ch) : IsNum(ch[i]) /\ ch[i] >= 0
        /\ \A i \in 1..(Len(out.N) - 1) : out.N[i] <= out.N[i + 1]

\* C15: the damage a diameter trial compares with 1 is the sum of the
\* contributions computed in that trial only (its stochastic and deterministic
\* parts); nothing is carried in from an earlier trial or from the other seat.
C15_DamageOfThisTrialOnly ==
    (pc \in {"syn_up", "syn_dn", "ext_up", "ext_dn", "bearings", "final", "done"}
     /\ hist.trialsUp >= 1)
    => Damage = FAdd(hist.stoch, hist.det)

\* The second seat's search is in its second trial or later, after an upwind
\* search of at least two trials, with a damage above zero.
C15_Witness ==
    /\ pc \in {"syn_dn", "ext_dn"} /\ hist.trialsUp >= 2 /\ hist.trialsDn >= 1
    /\ IsNum(Damage) /\ Damage > 0

\* C16: the allowable angular deflection depends on the bearing type of the
\* seat: once the slope of a spherical-roller or CARB seat has been checked, the
\* limit it was checked against differs from the tapered-roller (TRB1) limit.
C16_LimitDependsOnBearingType ==
    (hist.passes1 >= 1 /\ inp.mb1Type \in {"SRB", "CARB"})
    => SlopeLimit(inp.mb1Type) # SlopeLimit("TRB1")

\* C17: the static span search lengthens the span and re-enters the loop only
\* when |slope| at the bearing-end station exceeds the allowable limit: a pass
\* of the first span loop that follows an earlier pass (the span was lengthened
\* and the loop re-entered) follows a slope above the limit.
C17_LengthenOnlyAboveLimit ==
    [][(pc = "loop1" /\ hist.passes1 >= 1 /\ hist'.passes1 = hist.passes1 + 1)
       => GT(Abs(hist.theta), SlopeLimit(inp.mb1Type))]_vars

\* C18: in the 4-point model each pass of the nested inner loop whose slope
\* check fails increases the gearbox-side span L_ms_gb by the step dL, so an
\* inner pass that follows another one evaluates a span longer by dL.
C18_InnerSpanGrows ==
    [][(pc = "inner" /\ hist.inner >= 1 /\ hist'.inner = hist.inner + 1)
       => L_ms_gb' = L_ms_gb + dL_second]_vars

\* C19: within one static search the outer diameters never shrink: after a pass
\* of the first span loop that follows another pass, D_max and D_min are at
\* least what they were after the earlier pass.
C19_DiametersNeverShrink ==
    [][(pc = "loop1" /\ hist.passes1 >= 1 /\ hist'.passes1 = hist.passes1 + 1)
       => (D_max' >= D_max /\ D_min' >= D_min)]_vars

\* C20: in the 4-point model the downwind seat's fatigue search is independent
\* of the upwind one: when it starts, D_med and the bore D_in are those the
\* static solver produced, however many trials the upwind search needed.
C20_DownwindStartsFromStatic ==
    (pc \in {"syn_dn", "ext_dn"} /\ hist.trialsDn = 0)
    => (D_med = hist.static.D_med /\ D_in = hist.static.D_in)

C21_TrialDiameterSteps ==
    [][(pc \in {"syn_up", "ext_up"} /\ hist.passes1 >= 1
        /\ hist'.trialsUp = hist.trialsUp + 1)
       => (/\ D_max' \in {D_max, D_max + iterationstep}
           /\ D_in' = hist.static.D_in)]_vars


\* C22: every damage evaluation adds a deterministic once-per-revolution term
\* on top of the spectrum damage, in synthesized and in external mode alike:
\* after a trial of the upwind seat, whose weight-induced bending moment
\* rotorWeight*L_rb is above zero, the deterministic part of the damage is
\* above zero.
C22_DeterministicTermPresent ==
    (/\ \/ pc \in {"syn_up", "ext_up"} /\ hist.trialsUp >= 1
        \/ pc \in {"syn_dn", "ext_dn"} /\ hist.trialsDn = 0
     /\ inp.syn.W_Lrb > 0)
    => hist.det > 0


\* C23: the lifetime cycle count is the whole-life count times the fraction of
\* time the wind is between cut-in and cut-out: N_f = availability*n_c*seconds
\* * (P(V > cut-in) - P(V > cut-out)), for the N_f a synthesized search used.
C23_CyclesWeightedByWindFraction ==
    (FatigueMode(inp) = "synth" /\ hist.trialsUp >= 1)
    => N_f4(inp.syn) = inp.syn.cyc * inp.syn.T_life * (inp.syn.pIn - inp.syn.pOut)


\* C24: the reported shaft length, the shaft mass and the upwind bearing
\* location of one execute() are computed from the same final span, the one at
\* which the last slope check was evaluated.
C24_OneFinalSpan ==
    (pc = "done" /\ out.status = "ok")
    => (out.lengthSpan = out.massSpan /\ out.brgSpan = out.massSpan)


\* C25: for every input, a non-positive length budget included, the static
\* loops make at least one pass before the fatigue or bypass stage and the
\* finalizer run, so execute() never fails by reading an unassigned variable.
C25_NoUnassignedRead ==
    /\ (pc \in {"fatigue", "syn_up", "ext_up", "bypass", "bearings", "final", "done"}
        => hist.passes1 >= 1)
    /\ out.status # "NameError"


\* C26: the 4-point and the 3-point model handle check_fatigue identically:
\* every value other than 1 and 2 takes the bypass path and completes with
\* diameter1 = resize_for_bearings(static D_max, mb1Type), for runs whose
\* static solver assigned its diameters.
C26_OtherValuesBypass ==
    (/\ pc \in {"done", "error"}
     /\ inp.check_fatigue \notin {1, 2}
     /\ hist.static.D_in # Undef
     /\ (inp.config = "4pt" => hist.static.D_med # Undef))
    => (/\ out.status = "ok"
        /\ out.diameter1 = resize_for_bearings(hist.static.D_max, inp.mb1Type))


-----------------------------------------------------------------------------
(* Auxiliary specifications of single computations of the module: they use   *)
(* inp for the inputs, pc for the position and out for the values computed.  *)

\* No local of the shaft solver is bound
LocalsUnbound ==
    /\ L_ms = Undef /\ L_ms_new = Undef
    /\ L_mb = Undef /\ L_mb_new = Undef
    /\ L_ms_gb = Undef /\ L_ms_gb_new = Undef /\ L_ms__gb_new = Undef
    /\ check_limit = Undef /\ check_limit_ms = Undef
    /\ counter = Undef /\ counter_ms = Undef
    /\ D_max = Undef /\ D_min = Undef /\ D_med = Undef /\ D_in = Undef
    /\ Damage = Undef /\ D_max_a = Undef /\ D_med_a = Undef /\ D_min_a = Undef
    /\ hist = Hist0

LocalsUnchanged ==
    UNCHANGED <<inp, L_ms, L_ms_new, L_mb, L_mb_new, L_ms_gb, L_ms_gb_new,
                L_ms__gb_new, check_limit, check_limit_ms, counter, counter_ms,
                D_max, D_min, D_med, D_in, Damage, D_max_a, D_med_a, D_min_a, hist>>

-----------------------------------------------------------------------------
(* The rotor mass of LowSpeedShaft_drive4pt (lines 128-135, 202, 444-445,    *)
(* 566), in kg; weights in units of g/100 N.                                 *)

g == 981                    \* g=9.81, in 1/100 m/s**2

\* get_rotor_mass(self.machine_rating): the regression is library code; its
\* value for the machine rating of the run is the input field regression.
get_rotor_mass(i) == i.regression

RotorMassInputs ==
    { [rotor_mass |-> m, regression |-> r] :
        m \in {0, 50, 99, 100, 50000, 110000},
        r \in {20000, 30000, 40000, 50000, 60000, 80000, 100000, 120000} }

InitRotorMass ==
    /\ inp \in RotorMassInputs
    /\ pc = "rotor_mass"
    /\ out = [rotor_mass |-> Undef, rotorWeight_static |-> Undef,
              rotorWeight_fatigue |-> Undef]
    /\ LocalsUnbound

\* rotor_mass = self.rotor_mass; if rotor_mass ==0: rotor_mass = get_rotor_mass(...)
DefaultRotorMass ==
    /\ pc = "rotor_mass"
    /\ out' = [out EXCEPT !.rotor_mass = IF inp.rotor_mass = 0 THEN get_rotor_mass(inp)
                                         ELSE inp.rotor_mass]
    /\ pc' = "static_weight"
    /\ LocalsUnchanged

\* rotorWeight=self.rotor_mass*g in the span loops (line 202)
StaticRotorWeight ==
    /\ pc = "static_weight"
    /\ out' = [out EXCEPT !.rotorWeight_static = inp.rotor_mass * g]
    /\ pc' = "fatigue_weight"
    /\ LocalsUnchanged

\* if rotor_mass < 100: rotor_mass = get_rotor_mass(...) (444-445), then
\* rotorWeight=rotor_mass*g (566)
FatigueRotorWeight ==
    /\ pc = "fatigue_weight"
    /\ LET m == IF out.rotor_mass < 100 THEN get_rotor_mass(inp) ELSE out.rotor_mass
       IN  out' = [out EXCEPT !.rotor_mass = m, !.rotorWeight_fatigue = m * g]
    /\ pc' = "weights"
    /\ LocalsUnchanged

NextRotorMass == DefaultRotorMass \/ StaticRotorWeight \/ FatigueRotorWeight

SpecRotorMass == InitRotorMass /\ [][NextRotorMass]_vars

\* C27: when the rotor_mass input is 0, the 4-point model uses the regression
\* rotor mass get_rotor_mass(machine_rating) everywhere rotor weight enters:
\* in the static span loops as well as in the fatigue stage.
C27_DefaultRotorMassEverywhere ==
    (pc = "weights" /\ inp.rotor_mass = 0)
    => (/\ out.rotorWeight_static = get_rotor_mass(inp) * g
        /\ out.rotorWeight_fatigue = get_rotor_mass(inp) * g)


-----------------------------------------------------------------------------
(* The hub-to-bearing distance and the length budget of both shaft models    *)
(* (lines 157-161, 187, 961-964, 1013), in micrometres; rotor diameter in m. *)

\* if self.L_rb == 0: L_rb = 0.007835*rotor_diameter+0.9642 else: L_rb = self.L_rb
L_rb_of(i) == IF i.L_rb = 0 THEN 7835 * i.rotor_diameter + 964200 ELSE i.L_rb

\* gearbox_end is self.gearbox_cm[0] - self.gearbox_length/2.
InitLengthMax ==
    /\ inp \in { [L_rb |-> l, rotor_diameter |-> d, overhang |-> o, gearbox_end |-> e] :
                   l \in {0, 1912000}, d \in {40, 70, 100, 126},
                   o \in {3000000, 5000000, 6500000}, e \in {-656000, 0} }
    /\ pc = "L_rb"
    /\ out = [L_rb |-> Undef, length_max_4pt |-> Undef, length_max_3pt |-> Undef]
    /\ LocalsUnbound

\* Lines 157-161 and 961-964: the local L_rb, the same statement in both models
DefaultL_rb ==
    /\ pc = "L_rb"
    /\ out' = [out EXCEPT !.L_rb = L_rb_of(inp)]
    /\ pc' = "length_max_4pt"
    /\ LocalsUnchanged

\* length_max = self.overhang - L_rb + (self.gearbox_cm[0] -self.gearbox_length/2.)
LengthMax4pt ==
    /\ pc = "length_max_4pt"
    /\ out' = [out EXCEPT !.length_max_4pt = inp.overhang - out.L_rb + inp.gearbox_end]
    /\ pc' = "length_max_3pt"
    /\ LocalsUnchanged

\* length_max = self.overhang - self.L_rb + (self.gearbox_cm[0] -self.gearbox_length/2.)
LengthMax3pt ==
    /\ pc = "length_max_3pt"
    /\ out' = [out EXCEPT !.length_max_3pt = inp.overhang - inp.L_rb + inp.gearbox_end]
    /\ pc' = "budget"
    /\ LocalsUnchanged

NextLengthMax == DefaultL_rb \/ LengthMax4pt \/ LengthMax3pt

SpecLengthMax == InitLengthMax /\ [][NextLengthMax]_vars

\* C28: when the L_rb input is 0, both models compute length_max from the same
\* defaulted hub-to-bearing distance the rest of the solver uses, so for
\* identical inputs the 3-point and the 4-point solver have the same budget.
C28_SameLengthBudget ==
    (pc = "budget" /\ inp.L_rb = 0)
    => (/\ out.length_max_3pt = out.length_max_4pt
        /\ out.length_max_3pt = inp.overhang - out.L_rb + inp.gearbox_end)


-----------------------------------------------------------------------------
(* YawSystem_drive (lines 2307-2367): inp holds the attributes of the        *)
(* instance, out the motor count the caller gave, the calls made, and the    *)
(* motor count and mass of the last call.  Diameters of the tower top in dm. *)

InitYaw ==
    /\ \E n \in {0, 4, 6}, d \in {80, 100, 126}, t \in {30, 38} :
         /\ inp = [yaw_motors_number |-> n, rotor_diameter |-> d, tower_top_diameter |-> t]
         /\ out = [given |-> n, calls |-> 0, motors |-> Undef, mass |-> Undef]
    /\ pc = "yaw_call"
    /\ LocalsUnbound

\* YawSystem_drive.execute(), lines 2334-2367
YawExecute ==
    /\ pc = "yaw_call"
    /\ LET number == IF inp.yaw_motors_number # 0 THEN inp.yaw_motors_number
                     ELSE IF inp.rotor_diameter < 90 THEN 4
                     ELSE IF inp.rotor_diameter < 120 THEN 6
                     ELSE 8
           \* pi*tower_top_diameter*(tower_top_diameter*0.10)*(rotor_diameter/1000.0)*8000.0
           frictionPlateMass ==
               (2513 * inp.tower_top_diameter * inp.tower_top_diameter * inp.rotor_diameter)
                   \div 100000
           yawMotorMass == 190
       IN  /\ inp' = [inp EXCEPT !.yaw_motors_number = number]  \* self.yaw_motors_number = ...
           /\ out' = [out EXCEPT !.calls = @ + 1, !.motors = number,
                                 !.mass = frictionPlateMass + number * yawMotorMass]
    /\ pc' = IF out.calls = 0 THEN "yaw_between" ELSE "yaw_done"
    /\ UNCHANGED <<spanVars, diamVars, fatVars, hist>>

\* The caller sets another rotor diameter between the two calls
SetRotorDiameter ==
    /\ pc = "yaw_between"
    /\ \E d \in {80, 100, 126} : inp' = [inp EXCEPT !.rotor_diameter = d]
    /\ pc' = "yaw_call"
    /\ UNCHANGED <<out, spanVars, diamVars, fatVars, hist>>

NextYaw == YawExecute \/ SetRotorDiameter

SpecYaw == InitYaw /\ [][NextYaw]_vars

\* C29: YawSystem_drive.execute() leaves its input yaw_motors_number unchanged:
\* with yaw_motors_number 0 (auto), the motor count of a second call is
\* re-derived from the rotor diameter of that call (4 below 90 m, 6 below
\* 120 m, else 8).
C29_MotorCountRederived ==
    (pc = "yaw_done" /\ out.given = 0)
    => (/\ inp.yaw_motors_number = 0
        /\ out.motors = IF inp.rotor_diameter < 90 THEN 4
                        ELSE IF inp.rotor_diameter < 120 THEN 6 ELSE 8)


(***************************************************************************)
(* Bedplate_drive.execute(), lines 2078-2300: the two I-beam sizing loops. *)
(* Units: locations and lengths 0.01 m, section dimensions 0.001 m         *)
(* (tf = 0.01905 and tw = 0.0127 rounded to 19 and 13), masses kg, point   *)
(* loads 100 N, moments kN*m, second moment of area 1e-6 m**4, deflection  *)
(* numerators (deflection times E*I) 0.1 N*m**3.                           *)
(***************************************************************************)

\* Largest number of passes of one sizing loop that the model follows
MaxBeamSteps == 60

\* Inputs of Bedplate_drive, the initial section and the initial
\* rootStress = 250e6 and totalTipDefl = 1.0 (both outside the limits)
InitBedplate ==
    /\ \E gl \in {0, 50, 100, 200, 400}, ttd \in {200, 300},
          tm \in {0, 2000}, my \in {100, 300} :
         inp = [generator_location |-> gl, tower_top_diameter |-> ttd,
                generator_mass |-> 16699, hss_location |-> 0, hss_mass |-> 1492,
                transformer_mass |-> tm, transformer_location |-> 300,
                machine_rating |-> 1500, gbx_location |-> 0, gbx_mass |-> 15000,
                mb1_location |-> 130, FW_mb1 |-> 30, mb1_mass |-> 1500,
                mb2_location |-> 40, mb2_mass |-> 1000,
                lss_location |-> 80, lss_mass |-> 3000,
                rotor_mass |-> 10000, rotor_diameter |-> 70, L_rb |-> 0,
                rotor_force_z |-> 500, rotor_bending_moment_y |-> my]
    /\ out = [tf |-> 19, tw |-> 13, h0 |-> 610, b0 |-> 305, counter |-> 0,
              stressOver |-> TRUE, deflOver |-> TRUE,
              rearHeight |-> Undef, frontHeight |-> Undef]
    /\ pc = "rear"
    /\ LocalsUnbound

\* def midDeflection(totalLength,loadLength,load,E,I), lines 2123-2125,
\* times E*I: load*loadLength**2*(3*totalLength - loadLength)/6
midDeflection(totalLength, loadLength, load) ==
    (load * ((loadLength * loadLength * (3 * totalLength - loadLength)) \div 1000)) \div 6

\* def distDeflection(totalLength,distWeight,E,I), lines 2128-2130, times
\* E*I: distWeight*totalLength**4/8, distWeight in N/m
distDeflection(totalLength, distWeight) ==
    LET L2 == (totalLength * totalLength) \div 100
    IN  (distWeight * ((L2 * L2) \div 10000) * 10) \div 8

\* One evaluation of the loop body for input i, frame f and section s:
\* lines 2087-2139 (locals), 2149-2174 (rear), 2212-2238 (front)
BeamLoads(i, f, s) ==
    LET L_rb == IF i.L_rb # 0 THEN i.L_rb ELSE (7835 * i.rotor_diameter + 964200) \div 10000
        transLoc == IF i.transformer_mass # 0 THEN i.transformer_location ELSE 0
        convMass == IF i.transformer_mass # 0 THEN (3 * i.transformer_mass) \div 10
                    ELSE ((24445 * i.machine_rating + 15990000) * 3) \div 100000
        convLoc == i.generator_location * 2
        mb1_location == IF i.mb1_location < 0 THEN 0 - i.mb1_location ELSE i.mb1_location
        mb2_location == IF i.mb2_location < 0 THEN 0 - i.mb2_location ELSE i.mb2_location
        lss_location == IF i.lss_location < 0 THEN 0 - i.lss_location ELSE i.lss_location
        rearTotalLength == IF transLoc > 0 THEN (transLoc * 11) \div 10
                           ELSE (i.generator_location * 4237) \div 2886
                                - i.tower_top_diameter \div 2
        frontTotalLength == mb1_location + i.FW_mb1 \div 2
        rotorLoc == mb1_location + L_rb
        rotorFz == IF i.rotor_force_z < 0 THEN 0 - i.rotor_force_z ELSE i.rotor_force_z
        rotorMy == IF i.rotor_bending_moment_y < 0 THEN 0 - i.rotor_bending_moment_y
                   ELSE i.rotor_bending_moment_y
        rear_gbx_location == IF i.gbx_location > 0 THEN i.gbx_location ELSE 0
        rear_gbx_mass == IF i.gbx_location > 0 THEN i.gbx_mass ELSE 0
        front_gbx_mass == IF i.gbx_location < 0 THEN i.gbx_mass ELSE 0
        half(m) == (m * g) \div 20000            \* m*g/2, in 100 N
        bi2 == s.b0 - s.tw                       \* 2*bi
        hi == s.h0 - 2 * s.tf
        I == (s.b0 * ((s.h0 * s.h0 * s.h0) \div 1000)
              - bi2 * ((hi * hi * hi) \div 1000)) \div 12000
        A == s.b0 * s.h0 - bi2 * hi              \* mm**2
        w == (A * (IF f = "rear" THEN 78 ELSE 71)) \div 10000   \* A*density, kg/m
        L == IF f = "rear" THEN rearTotalLength ELSE frontTotalLength
        selfTipDefl == distDeflection(L, (w * g) \div 100)
        selfMoment == (w * ((L * L) \div 100)) \div 200         \* w*L**2/2, kg*m
        rearTipDefl ==
            midDeflection(L, i.hss_location, half(i.hss_mass))
            + midDeflection(L, i.generator_location, half(i.generator_mass))
            + midDeflection(L, convLoc, half(convMass))
            + midDeflection(L, transLoc, half(i.transformer_mass))
            + selfTipDefl
            + midDeflection(L, rear_gbx_location, half(rear_gbx_mass))
        frontTipDefl ==
            midDeflection(L, mb1_location, half(i.mb1_mass))
            + midDeflection(L, mb2_location, half(i.mb2_mass))
            + midDeflection(L, lss_location, half(i.lss_mass))
            + midDeflection(L, rotorLoc, half(i.rotor_mass))
            + selfTipDefl
            + 25 * rotorMy * ((L * L) \div 100)  \* rotorMy/2*L**2/2
            + midDeflection(L, rotorLoc, rotorFz \div 2)
            \* gbxTipDefl: the load length passed is gbx_mass (line 2224)
            + midDeflection(L, 100 * front_gbx_mass, half(front_gbx_mass))
        rearMoment ==
            (((i.hss_location * i.hss_mass + i.generator_location * i.generator_mass
               + convLoc * convMass + transLoc * i.transformer_mass) \div 100
              + selfMoment) * g) \div 100000
        frontMoment ==
            (((((mb1_location * i.mb1_mass + mb2_location * i.mb2_mass
                 + lss_location * i.lss_mass + rotorLoc * i.rotor_mass) \div 200
                + selfMoment) * g) \div 100)
             + (rotorLoc * rotorFz) \div 2) \div 1000 + rotorMy
        totalTipDefl == IF f = "rear" THEN rearTipDefl ELSE frontTipDefl
        totalBendingMoment == IF f = "rear" THEN rearMoment ELSE frontMoment
    IN  [L |-> L, I |-> I,
         \* rootStress*stress_mult - stressMax > stressTol, with
         \* rootStress = totalBendingMoment*h0/(2*I), stress_mult = 6,
         \* stressMax = 620e6 (rear) or 200e6 (front), stressTol = 5e5
         stressOver |-> totalBendingMoment * s.h0 * 100
                            > (IF f = "rear" THEN 20683 ELSE 6683) * I,
         \* totalTipDefl - deflMax > deflTol, with deflMax = L/1000,
         \* deflTol = 1e-4, E = 2.1e11 (rear) or 169e9 (front)
         deflOver |-> IF f = "rear" THEN totalTipDefl > 21 * (L + 10) * I
                      ELSE 10 * totalTipDefl > 169 * (L + 10) * I]

\* One pass of 'while rootStress*stress_mult - stressMax > stressTol or
\* totalTipDefl - deflMax > deflTol:' (2152-2189 rear, 2215-2255 front)
BeamPass ==
    /\ pc \in {"rear", "front"}
    /\ out.stressOver \/ out.deflOver
    /\ out.counter < MaxBeamSteps
    /\ LET r == BeamLoads(inp, pc, out)
       IN  out' = [out EXCEPT !.counter = @ + 1,
                              !.stressOver = r.stressOver, !.deflOver = r.deflOver,
                              !.tf = @ + 2, !.tw = @ + 2, !.b0 = @ + 6, !.h0 = @ + 6]
    /\ pc' = pc
    /\ LocalsUnchanged

\* The loop condition is false: rearHeight = h0 and the front frame starts
\* from the initial section (2191-2213), or frontHeight = h0 (2257)
BeamExit ==
    /\ pc \in {"rear", "front"}
    /\ ~(out.stressOver \/ out.deflOver)
    /\ IF pc = "rear"
       THEN /\ out' = [out EXCEPT !.rearHeight = out.h0,
                                  !.tf = 19, !.tw = 13, !.h0 = 610, !.b0 = 305,
                                  !.counter = 0, !.stressOver = TRUE, !.deflOver = TRUE]
            /\ pc' = "front"
       ELSE /\ out' = [out EXCEPT !.frontHeight = out.h0]
            /\ pc' = "bed_done"
    /\ LocalsUnchanged

NextBedplate == BeamPass \/ BeamExit

SpecBedplate == InitBedplate /\ [][NextBedplate]_vars

\* C30: both I-beam sizing loops of Bedplate_drive.execute() terminate for
\* every input, a zero or negative rear or front length included: growing the
\* section by the fixed steps reaches one whose root stress and tip
\* deflection are within the limits (here: at the latest after MaxBeamSteps
\* passes, a section 0.97 m high).
C30_BothLoopsTerminate ==
    (pc \in {"rear", "front"} /\ out.counter = MaxBeamSteps)
    => ~(out.stressOver \/ out.deflOver)

====
